---- MODULE Spec2Model ----
(***************************************************************************)
(* MarriageBot: the transactional wrapper DatabaseConnection               *)
(* (src/cogs/utils/database.py) and the Redis relay cog RedisHandler       *)
(* (src/cogs/redis_handler.py), as state machines.                         *)
(*                                                                         *)
(* The relational engine, the asyncpg pool and the Redis bus are the       *)
(* environment: every awaited call into them either returns or raises.     *)
(***************************************************************************)
EXTENDS Integers, Sequences, FiniteSets, TLC

None == "None"
NoConn == 0         \* self.conn = None: no connection held

(***************************************************************************)
(* Bounds of the model.                                                    *)
(***************************************************************************)
MaxPoolSize == 1    \* the largest pool size a configuration asks for
NCallers    == 2    \* concurrent users of the pool
MaxCalls    == 2    \* marry() calls issued over a run (the clock's range)
MaxMsgs     == 2    \* messages the bus delivers over a run, all channels together
MaxUnloads  == 2    \* calls of cog_unload over a run
MaxPools    == 2    \* calls of create_pool over a run, the one before Init included
MaxDepth    == 2    \* transactions a caller nests on one connection by calling start_transaction itself

\* The connections of all the pools of a run: those of the n-th pool are
\* Members(n, its size).
Conns   == 1 .. MaxPools * MaxPoolSize
Callers == 1 .. NCallers
Users   == {1, 2}
Guilds  == {9}

VARIABLES
    max_size,     \* the pool size of the configuration given to create_pool
    pool,         \* DatabaseConnection.pool: the connections free in the pool
    conn,         \* conn[c]: self.conn of caller c's DatabaseConnection
    transaction,  \* transaction[c]: self.transaction, None or the state of the asyncpg Transaction it refers to
    xact,         \* xact[k]: TRUE while the backend has a transaction open on connection k
    pending,      \* pending[k]: rows written by the open transaction of connection k
    marriages,    \* the committed rows of table marriages: what any reader sees
    dbpc,         \* dbpc[c]: where caller c is
    call,         \* call[c]: the arguments and timestamp of c's current or last marry()
    caught,       \* caught[c]: the exception e bound by "except Exception as e"
    raised,       \* raised[c]: the exception that escaped c's last marry(), or NoExc
    steps,        \* steps[c]: the backend requests c's current or last marry() made
    now           \* the clock read by dt.utcnow()

VARIABLES
    is_server_specific, \* bot.is_server_specific
    task,         \* task[ch]: where the task of self.handlers running channel_handler(ch, ...) is
    cancel_req,   \* the tasks cancel() was called on that have not yet seen CancelledError
    channels,     \* self._channels
    subscribed,   \* the channels the bus holds a subscription for
    delivered,    \* delivered[ch]: the messages the bus has put on ch's Channel object, oldest first
    taken,        \* taken[ch]: how many of them channel_handler has read
    invoked,      \* invoked[ch]: the messages function(data) was called with, in call order
    listened,     \* the channels whose task has reached the wait_message loop
    unload_pc,    \* where a running cog_unload is
    todo,         \* what is left of cog_unload's self._channels.copy()
    unloads,      \* calls of cog_unload so far
    returned,     \* calls of cog_unload that have returned normally
    unload_error, \* the exception that ended the last cog_unload, or None
    requested     \* requested[ch]: unsubscribe requests issued for ch

redisvars == <<is_server_specific, task, cancel_req, channels, subscribed, delivered,
               taken, invoked, listened, unload_pc, todo, unloads, returned,
               unload_error, requested>>

dbvars == <<max_size, pool, conn, transaction, xact, pending, marriages, dbpc, call,
            caught, raised, steps, now>>

VARIABLES
    config,       \* DatabaseConnection.config: the configuration create_pool stored
    pools,        \* how many pools create_pool has made: DatabaseConnection.pool is the last
    exited,       \* TRUE once create_pool has ended the process with exit(1)
    saved,        \* saved[k]: per savepoint open on connection k, the uncommitted rows when it was set
    result,       \* result[c]: what c's last call of a DatabaseConnection method returned or raised
    query,        \* query[c]: the statement of that call if it was __call__, and what the backend did with it
    copied        \* the records copy_records_to_table has copied into the table

VARIABLES
    convention,   \* convention[ch]: how the function given to channel_handler(ch, function) is called
    completed,    \* completed[ch]: the messages for which the handler's work has run to its end
    redis_held    \* the channels whose task holds the connection of "async with self.bot.redis()"

leasevars == <<config, pools, exited, saved, result, query, copied>>

relayvars == <<convention, completed, redis_held>>

vars == <<dbvars, redisvars, leasevars, relayvars>>

Row(u, p, g, ts) == [user_id |-> u, partner_id |-> p, guild_id |-> g, timestamp |-> ts]
Key(r) == <<r.user_id, r.partner_id, r.guild_id>>
Keys(rows) == {Key(r) : r \in rows}

\* An exception object: where it was raised and its kind.
Exc(site, kind) == [site |-> site, kind |-> kind]
\* No exception.
NoExc == Exc(None, None)
\* No marry() call yet; a timestamp of 0 is one not read yet.
NoCall == [instigator |-> 0, target |-> 0, guild_id |-> 0, timestamp |-> 0]

\* What a call of a DatabaseConnection method gave its caller: kind is "unset"
\* (nothing called yet), "None", "list" (with the rows) or the error raised.
Result(kind, rows) == [kind |-> kind, rows |-> rows]
NoResult == Result("unset", <<>>)

\* A call db(sql, u, p): found is what conn.fetch sent back, wrote whether
\* the statement wrote its row.
Query(sql, u, p, found, wrote) ==
    [sql |-> sql, user_id |-> u, partner_id |-> p, found |-> found, wrote |-> wrote]
NoQuery == Query(<<>>, 0, 0, <<>>, FALSE)

\* The configurations create_pool is given: "enabled" and the pool's size.
Configs == [enabled : BOOLEAN, max_size : 1 .. MaxPoolSize]

\* The connections of the n-th pool created, of the given size.
Members(n, size) == {(n - 1) * MaxPoolSize + k : k \in 1 .. size}

\* After create_pool(config): a pool of config's max_size connections, all free.
InitDb(size) ==
    /\ config = [enabled |-> TRUE, max_size |-> size]
    /\ pools = 1
    /\ exited = FALSE
    /\ copied = {}
    /\ saved = [k \in Conns |-> <<>>]
    /\ result = [c \in Callers |-> NoResult]
    /\ query = [c \in Callers |-> NoQuery]
    /\ max_size = size
    /\ pool = 1 .. max_size
    /\ conn = [c \in Callers |-> NoConn]
    /\ transaction = [c \in Callers |-> None]
    /\ xact = [k \in Conns |-> FALSE]
    /\ pending = [k \in Conns |-> {}]
    /\ marriages = {}
    /\ dbpc = [c \in Callers |-> "start"]
    /\ call = [c \in Callers |-> NoCall]
    /\ caught = [c \in Callers |-> NoExc]
    /\ raised = [c \in Callers |-> NoExc]
    /\ steps = [c \in Callers |-> <<>>]
    /\ now = 0

(***************************************************************************)
(* The relational backend, as seen through one connection.                 *)
(***************************************************************************)
\* Rows connection k sees: the committed ones and those of its own open transaction.
Visible(k) == marriages \cup pending[k]

\* An INSERT of row r on connection k waits while another open transaction
\* holds an uncommitted row with the same key.
Conflicts(k, r) ==
    \E k2 \in Conns \ {k} : xact[k2] /\ Key(r) \in Keys(pending[k2])

\* What conn.execute(INSERT ...) may do on connection k: "ok", or the kind of
\* error it raises. A duplicate key always raises; any statement may fail.
InsertOutcomes(k, r) ==
    IF Key(r) \in Keys(Visible(k))
    THEN {"UniqueViolationError", "PostgresError"}
    ELSE IF Conflicts(k, r) THEN {"PostgresError"} ELSE {"ok", "PostgresError"}

\* The effect of a successful INSERT: into the open transaction if there is
\* one, committed at once (autocommit) otherwise.
InsertRow(k, r) ==
    IF xact[k]
    THEN /\ pending' = [pending EXCEPT ![k] = @ \cup {r}]
         /\ UNCHANGED marriages
    ELSE /\ marriages' = marriages \cup {r}
         /\ UNCHANGED pending

Front(seq) == SubSeq(seq, 1, Len(seq) - 1)
Last(seq) == seq[Len(seq)]

\* Transaction.start() on connection k: BEGIN, or, with a transaction already
\* open on the connection, a SAVEPOINT nested in it.
BeginOn(k) ==
    /\ IF xact[k]
       THEN /\ saved' = [saved EXCEPT ![k] = Append(@, pending[k])]
            /\ UNCHANGED xact
       ELSE /\ xact' = [xact EXCEPT ![k] = TRUE]
            /\ UNCHANGED saved
    /\ UNCHANGED <<pending, marriages>>

\* Transaction.commit() on connection k: RELEASE SAVEPOINT for a nested
\* transaction, which commits nothing; COMMIT for the outermost.
CommitOn(k) ==
    IF saved[k] # <<>>
    THEN /\ saved' = [saved EXCEPT ![k] = Front(@)]
         /\ UNCHANGED <<xact, pending, marriages>>
    ELSE /\ marriages' = marriages \cup pending[k]
         /\ pending' = [pending EXCEPT ![k] = {}]
         /\ xact' = [xact EXCEPT ![k] = FALSE]
         /\ UNCHANGED saved

\* Transaction.rollback() on connection k: ROLLBACK TO SAVEPOINT for a nested
\* transaction, which undoes what was written since it began; ROLLBACK for the
\* outermost.
RollbackOn(k) ==
    /\ IF saved[k] # <<>>
       THEN /\ pending' = [pending EXCEPT ![k] = Last(saved[k])]
            /\ saved' = [saved EXCEPT ![k] = Front(@)]
            /\ UNCHANGED xact
       ELSE /\ pending' = [pending EXCEPT ![k] = {}]
            /\ xact' = [xact EXCEPT ![k] = FALSE]
            /\ UNCHANGED saved
    /\ UNCHANGED marriages

\* The connection k is reset or lost: the backend drops what was open on it.
ResetOn(k) ==
    /\ xact' = [xact EXCEPT ![k] = FALSE]
    /\ pending' = [pending EXCEPT ![k] = {}]
    /\ saved' = [saved EXCEPT ![k] = <<>>]
    /\ UNCHANGED marriages

(***************************************************************************)
(* DatabaseConnection: acquiring and releasing a lease.                    *)
(***************************************************************************)
\* A pool that hands out a connection whether or not it is free.
AcquirableAny == 1 .. max_size

\* The connections pool.acquire() may hand out now.
Acquirable == pool

\* await pool.acquire() for a new DatabaseConnection: with no free connection
\* the caller stays suspended inside acquire().
Acquire(c) ==
    /\ dbpc[c] \in {"start", "acquiring"}
    /\ IF Acquirable = {}
       THEN /\ dbpc[c] = "start"
            /\ dbpc' = [dbpc EXCEPT ![c] = "acquiring"]
            /\ UNCHANGED <<max_size, pool, conn, transaction>>
       ELSE LET k == CHOOSE x \in Acquirable : \A y \in Acquirable : x <= y IN
            /\ pool' = pool \ {k}
            /\ conn' = [conn EXCEPT ![c] = k]
            /\ transaction' = [transaction EXCEPT ![c] = None]
            /\ dbpc' = [dbpc EXCEPT ![c] = "held"]
    /\ UNCHANGED <<max_size, xact, pending, marriages, call, caught, raised, steps, now, redisvars, relayvars, leasevars>>

\* conn = await cls.pool.acquire(); return cls(conn)
get_connection(c) == Acquire(c)

\* async with DatabaseConnection() as db: self.conn = await self.pool.acquire()
aenter(c) == Acquire(c)

\* await self.pool.release(self.conn); self.conn = None
\* The pool resets a released connection, which rolls back a transaction left
\* open on it, and reports nothing to the caller; the caller drops the
\* DatabaseConnection object and what it recorded. A connection that is not
\* one of the class's current pool is refused with an InterfaceError, and
\* self.conn keeps it.
Release(c) ==
    /\ dbpc[c] \in {"held", "exiting"}
    /\ IF conn[c] \in Members(pools, max_size)
       THEN /\ pool' = pool \cup {conn[c]}
            /\ ResetOn(conn[c])
            /\ conn' = [conn EXCEPT ![c] = NoConn]
            /\ transaction' = [transaction EXCEPT ![c] = None]
            /\ call' = [call EXCEPT ![c] = NoCall]
            /\ caught' = [caught EXCEPT ![c] = NoExc]
            /\ raised' = [raised EXCEPT ![c] = NoExc]
            /\ steps' = [steps EXCEPT ![c] = <<>>]
            /\ result' = [result EXCEPT ![c] = NoResult]
            /\ query' = [query EXCEPT ![c] = NoQuery]
            /\ dbpc' = [dbpc EXCEPT ![c] = "start"]
       ELSE /\ result' = [result EXCEPT ![c] = Result("InterfaceError", <<>>)]
            /\ query' = [query EXCEPT ![c] = NoQuery]
            /\ UNCHANGED <<pool, xact, pending, saved, marriages, conn, transaction, call,
                           caught, raised, steps, dbpc>>
    /\ UNCHANGED <<max_size, now, config, pools, exited, copied, redisvars, relayvars>>

\* await self.pool.release(self.conn); self.conn = None; del self
disconnect(c) == Release(c)

\* The end of the async with block.
aexit(c) == Release(c)

(***************************************************************************)
(* DatabaseConnection.marry, one action per awaited backend request.       *)
(***************************************************************************)
\* marry(instigator, target, guild_id) is called; start_transaction creates
\* the Transaction object (self.transaction = self.conn.transaction()).
marry(c, i, t, g) ==
    /\ dbpc[c] = "held"
    /\ now < MaxCalls
    /\ call' = [call EXCEPT ![c] =
                  [instigator |-> i, target |-> t, guild_id |-> g, timestamp |-> 0]]
    /\ transaction' = [transaction EXCEPT ![c] = "NEW"]
    /\ caught' = [caught EXCEPT ![c] = NoExc]
    /\ raised' = [raised EXCEPT ![c] = NoExc]
    /\ steps' = [steps EXCEPT ![c] = <<>>]
    /\ dbpc' = [dbpc EXCEPT ![c] = "begin"]
    /\ UNCHANGED <<max_size, pool, conn, xact, pending, marriages, now, redisvars, relayvars, leasevars>>

\* start_transaction without the BEGIN: every statement after it autocommits.
start_transaction_no_begin(c, out) ==
    /\ dbpc[c] = "begin"
    /\ steps' = [steps EXCEPT ![c] = Append(@, "begin")]
    /\ transaction' = [transaction EXCEPT ![c] = "STARTED"]
    /\ now' = now + 1
    /\ call' = [call EXCEPT ![c].timestamp = now + 1]
    /\ dbpc' = [dbpc EXCEPT ![c] = "insert1"]
    /\ UNCHANGED <<max_size, pool, conn, xact, pending, marriages, caught, raised, redisvars,
                   relayvars, leasevars>>

\* await self.transaction.start(); then timestamp = dt.utcnow()
start_transaction(c, out) ==
    /\ dbpc[c] = "begin"
    /\ steps' = [steps EXCEPT ![c] = Append(@, "begin")]
    /\ IF out = "ok"
       THEN /\ BeginOn(conn[c])
            /\ transaction' = [transaction EXCEPT ![c] = "STARTED"]
            /\ now' = now + 1
            /\ call' = [call EXCEPT ![c].timestamp = now + 1]
            /\ dbpc' = [dbpc EXCEPT ![c] = "insert1"]
            /\ UNCHANGED raised
       ELSE /\ transaction' = [transaction EXCEPT ![c] = "FAILED"]
            /\ raised' = [raised EXCEPT ![c] = Exc("begin", out)]
            /\ dbpc' = [dbpc EXCEPT ![c] = "held"]
            /\ UNCHANGED <<xact, saved, pending, marriages, now, call>>
    /\ UNCHANGED <<max_size, pool, conn, caught, config, pools, exited, copied, query, result, redisvars,
                   relayvars>>

\* The two rows marry() inserts, in statement order.
FirstRow(c)  == Row(call[c].instigator, call[c].target, call[c].guild_id, call[c].timestamp)
SecondRow(c) == Row(call[c].target, call[c].instigator, call[c].guild_id, call[c].timestamp)

\* await self("INSERT INTO marriages ..."): __call__ takes the execute branch
\* and returns None; an error leaves the try block for the except clause.
Call(c, site, r, out, next) ==
    /\ dbpc[c] = site
    /\ out \in InsertOutcomes(conn[c], r)
    /\ steps' = [steps EXCEPT ![c] = Append(@, site)]
    /\ IF out = "ok"
       THEN /\ InsertRow(conn[c], r)
            /\ dbpc' = [dbpc EXCEPT ![c] = next]
            /\ UNCHANGED caught
       ELSE /\ caught' = [caught EXCEPT ![c] = Exc(site, out)]
            /\ dbpc' = [dbpc EXCEPT ![c] = "rollback"]
            /\ UNCHANGED <<pending, marriages>>
    /\ UNCHANGED <<max_size, pool, conn, transaction, xact, call, raised, now, redisvars, relayvars, leasevars>>

marry_insert1(c, out) == Call(c, "insert1", FirstRow(c), out, "insert2")
marry_insert2(c, out) == Call(c, "insert2", SecondRow(c), out, "commit")

\* An except clause that rolls back and raises a new, generic error instead of e.
marry_rollback_generic(c, out) ==
    /\ dbpc[c] = "rollback"
    /\ steps' = [steps EXCEPT ![c] = Append(@, "rollback")]
    /\ IF out = "ok" THEN RollbackOn(conn[c]) ELSE ResetOn(conn[c])
    /\ transaction' = [transaction EXCEPT ![c] = IF out = "ok" THEN "ROLLEDBACK" ELSE "FAILED"]
    /\ raised' = [raised EXCEPT ![c] = Exc("marry", "Exception")]
    /\ dbpc' = [dbpc EXCEPT ![c] = "held"]
    /\ UNCHANGED <<max_size, pool, conn, call, caught, now, config, pools, exited, copied, query, result,
                   redisvars, relayvars>>

\* except Exception as e: await self.transaction.rollback(); raise e
\* A ROLLBACK that raises means the connection is gone: the backend drops the
\* transaction, and the error of rollback() is what leaves marry().
marry_rollback(c, out) ==
    /\ dbpc[c] = "rollback"
    /\ steps' = [steps EXCEPT ![c] = Append(@, "rollback")]
    /\ IF out = "ok"
       THEN /\ RollbackOn(conn[c])
            /\ transaction' = [transaction EXCEPT ![c] = "ROLLEDBACK"]
            /\ raised' = [raised EXCEPT ![c] = caught[c]]
       ELSE /\ ResetOn(conn[c])
            /\ transaction' = [transaction EXCEPT ![c] = "FAILED"]
            /\ raised' = [raised EXCEPT ![c] = Exc("rollback", out)]
    /\ dbpc' = [dbpc EXCEPT ![c] = "held"]
    /\ UNCHANGED <<max_size, pool, conn, call, caught, now, config, pools, exited, copied, query, result,
                   redisvars, relayvars>>

\* await self.transaction.commit(); self.transaction = None
\* A COMMIT that raises commits nothing.
commit_transaction(c, out) ==
    /\ dbpc[c] = "commit"
    /\ steps' = [steps EXCEPT ![c] = Append(@, "commit")]
    /\ IF out = "ok"
       THEN /\ CommitOn(conn[c])
            /\ transaction' = [transaction EXCEPT ![c] = None]
            /\ UNCHANGED raised
       ELSE /\ ResetOn(conn[c])
            /\ transaction' = [transaction EXCEPT ![c] = "FAILED"]
            /\ raised' = [raised EXCEPT ![c] = Exc("commit", out)]
    /\ dbpc' = [dbpc EXCEPT ![c] = "held"]
    /\ UNCHANGED <<max_size, pool, conn, call, caught, now, config, pools, exited, copied, query, result,
                   redisvars, relayvars>>

\* The task of caller c is cancelled while it is suspended in acquire(), which
\* then hands out nothing, or inside the "async with" block, which the
\* CancelledError leaves: __aexit__ is what runs next.
caller_cancelled(c) ==
    /\ dbpc[c] \in {"acquiring", "held"}
    /\ IF dbpc[c] = "acquiring"
       THEN /\ dbpc' = [dbpc EXCEPT ![c] = "start"]
            /\ UNCHANGED raised
       ELSE /\ dbpc' = [dbpc EXCEPT ![c] = "exiting"]
            /\ raised' = [raised EXCEPT ![c] = Exc("block", "CancelledError")]
    /\ UNCHANGED <<max_size, pool, conn, transaction, xact, pending, marriages, call, caught,
                   steps, now, leasevars, redisvars, relayvars>>

\* What an awaited BEGIN, ROLLBACK or COMMIT may do.
RequestOutcomes == {"ok", "InterfaceError"}
StatementOutcomes == {"ok", "UniqueViolationError", "PostgresError"}

\* The backend request c's marry() is waiting on is answered.
MarryStep(c) ==
    \/ \E out \in RequestOutcomes : start_transaction(c, out)
    \/ \E out \in StatementOutcomes : marry_insert1(c, out)
    \/ \E out \in StatementOutcomes : marry_insert2(c, out)
    \/ \E out \in RequestOutcomes : marry_rollback(c, out)
    \/ \E out \in RequestOutcomes : commit_transaction(c, out)

(***************************************************************************)
(* The methods of DatabaseConnection called one by one by the holder of a  *)
(* lease, in any order.                                                    *)
(***************************************************************************)
\* The transactions open on connection k, the outermost and those nested in it.
Depth(k) == IF xact[k] THEN 1 + Len(saved[k]) ELSE 0

\* await db.start_transaction(): self.transaction = self.conn.transaction()
\* replaces the marker, whatever it was, and start() begins a transaction, a
\* nested one when one is open on the connection already.
call_start_transaction(c, out) ==
    /\ dbpc[c] = "held"
    /\ Depth(conn[c]) < MaxDepth
    /\ IF out = "ok"
       THEN /\ BeginOn(conn[c])
            /\ transaction' = [transaction EXCEPT ![c] = "STARTED"]
            /\ result' = [result EXCEPT ![c] = Result("None", <<>>)]
       ELSE /\ transaction' = [transaction EXCEPT ![c] = "FAILED"]
            /\ result' = [result EXCEPT ![c] = Result(out, <<>>)]
            /\ UNCHANGED <<xact, saved, pending, marriages>>
    /\ query' = [query EXCEPT ![c] = NoQuery]
    /\ UNCHANGED <<max_size, pool, conn, dbpc, call, caught, raised, steps, now, config, pools,
                   exited, copied, redisvars, relayvars>>

\* await db.commit_transaction(): await self.transaction.commit(), then
\* self.transaction = None. With no marker self.transaction.commit is an
\* AttributeError; a Transaction that is not started refuses to commit.
call_commit_transaction(c, out) ==
    /\ dbpc[c] = "held"
    /\ IF transaction[c] = None
       THEN /\ result' = [result EXCEPT ![c] = Result("AttributeError", <<>>)]
            /\ UNCHANGED <<transaction, xact, saved, pending, marriages>>
       ELSE IF transaction[c] # "STARTED"
       THEN /\ result' = [result EXCEPT ![c] = Result("InterfaceError", <<>>)]
            /\ UNCHANGED <<transaction, xact, saved, pending, marriages>>
       ELSE IF out = "ok"
       THEN /\ CommitOn(conn[c])
            /\ transaction' = [transaction EXCEPT ![c] = None]
            /\ result' = [result EXCEPT ![c] = Result("None", <<>>)]
       ELSE /\ ResetOn(conn[c])
            /\ transaction' = [transaction EXCEPT ![c] = "FAILED"]
            /\ result' = [result EXCEPT ![c] = Result(out, <<>>)]
    /\ query' = [query EXCEPT ![c] = NoQuery]
    /\ UNCHANGED <<max_size, pool, conn, dbpc, call, caught, raised, steps, now, config, pools,
                   exited, copied, redisvars, relayvars>>

\* str.casefold() on the words the statements below are made of.
Casefold(w) ==
    CASE w \in {"SELECT", "Select"} -> "select"
      [] w \in {"INSERT", "Insert"} -> "insert"
      [] w = "RETURNING" -> "returning"
      [] OTHER -> w

\* key in sql.casefold(): a substring test, so a keyword inside a longer word
\* ("selected") counts as well.
Within(key, w) == w = key \/ (key = "select" /\ w = "selected")
Contains(sql, key) == \E n \in 1 .. Len(sql) : Within(key, Casefold(sql[n]))

\* The test of lines 80 and 89.
ExpectsRows(sql) == Contains(sql, "select") \/ Contains(sql, "returning")

\* The statements given to __call__, word by word (the values are passed as
\* arguments): two spellings of a SELECT by user_id, a plain INSERT, an INSERT
\* with a RETURNING clause, one that also skips a duplicate key, and an INSERT
\* that names a column "selected".
Statements ==
    { <<"SELECT", "from", "marriages", "where", "user_id">>,
      <<"select", "from", "marriages", "where", "user_id">>,
      <<"INSERT", "into", "marriages">>,
      <<"Insert", "into", "marriages", "RETURNING">>,
      <<"insert", "into", "marriages", "on", "conflict", "do", "nothing", "returning">>,
      <<"INSERT", "into", "marriages", "selected">> }

Verb(sql) == Casefold(sql[1])
SkipsDuplicate(sql) == \E n \in 1 .. Len(sql) : sql[n] = "conflict"

\* The rows a SELECT by user_id u finds on connection k, and the orders a
\* query without ORDER BY may give them in.
Matching(k, u) == {r \in Visible(k) : r.user_id = u}
Orders(rows) ==
    {seq \in [1 .. Cardinality(rows) -> rows] : {seq[n] : n \in 1 .. Cardinality(rows)} = rows}

\* The value __call__ returns for statement sql, x being what conn.fetch gave
\* (not used on the execute branch).
CallResultNoneWhenEmpty(sql, x) ==
    IF ExpectsRows(sql)
    THEN IF x # <<>> THEN Result("list", x) ELSE Result("None", <<>>)
    ELSE Result("None", <<>>)

CallResult(sql, x) ==
    IF ExpectsRows(sql)
    THEN IF x # <<>> THEN Result("list", x)
         ELSE IF ExpectsRows(sql) THEN Result("list", <<>>) ELSE Result("None", <<>>)
    ELSE Result("None", <<>>)

\* await db(sql, *args) by the holder of a lease. A SELECT reads the rows of
\* user u; an INSERT writes the row (u, p, guild 9, timestamp 0), into the
\* open transaction if there is one. x is what conn.fetch sends back.
call_sql(c, sql, u, p, out) ==
    /\ dbpc[c] = "held"
    /\ LET k == conn[c]
           r == Row(u, p, 9, 0)
           skipped == SkipsDuplicate(sql) /\ Key(r) \in Keys(Visible(k)) IN
       IF Verb(sql) = "select"
       THEN /\ IF out = "ok"
               THEN \E x \in Orders(Matching(k, u)) :
                        /\ result' = [result EXCEPT ![c] = CallResult(sql, x)]
                        /\ query' = [query EXCEPT ![c] = Query(sql, u, p, x, FALSE)]
               ELSE /\ out = "PostgresError"
                    /\ result' = [result EXCEPT ![c] = Result(out, <<>>)]
                    /\ query' = [query EXCEPT ![c] = Query(sql, u, p, <<>>, FALSE)]
            /\ UNCHANGED <<pending, marriages>>
       ELSE /\ out \in (IF skipped THEN {"ok", "PostgresError"} ELSE InsertOutcomes(k, r))
            /\ IF out = "ok"
               THEN LET x == IF Contains(sql, "returning") /\ ~skipped THEN <<r>> ELSE <<>> IN
                    /\ IF skipped THEN UNCHANGED <<pending, marriages>> ELSE InsertRow(k, r)
                    /\ result' = [result EXCEPT ![c] = CallResult(sql, x)]
                    /\ query' = [query EXCEPT ![c] = Query(sql, u, p, x, ~skipped)]
               ELSE /\ result' = [result EXCEPT ![c] = Result(out, <<>>)]
                    /\ query' = [query EXCEPT ![c] = Query(sql, u, p, <<>>, FALSE)]
                    /\ UNCHANGED <<pending, marriages>>
    /\ UNCHANGED <<max_size, pool, conn, transaction, xact, dbpc, call, caught, raised, steps,
                   now, config, pools, exited, copied, saved, redisvars, relayvars>>

NextDb ==
    \/ \E c \in Callers : get_connection(c)
    \/ \E c \in Callers : aenter(c)
    \/ \E c \in Callers : disconnect(c)
    \/ \E c \in Callers : aexit(c)
    \/ \E c \in Callers, i \in Users, t \in Users, g \in Guilds : marry(c, i, t, g)
    \/ \E c \in Callers, out \in RequestOutcomes : start_transaction(c, out)
    \/ \E c \in Callers, out \in StatementOutcomes : marry_insert1(c, out)
    \/ \E c \in Callers, out \in StatementOutcomes : marry_insert2(c, out)
    \/ \E c \in Callers, out \in RequestOutcomes : marry_rollback(c, out)
    \/ \E c \in Callers, out \in RequestOutcomes : commit_transaction(c, out)


(***************************************************************************)
(* RedisHandler: one task per channel, and cog_unload.                     *)
(***************************************************************************)
\* The channels of __init__, in the order their tasks are created.
AllChannels == <<"DBLVote", "ProposalCacheAdd", "ProposalCacheRemove", "TreeMemberUpdate">>
Channels == {AllChannels[n] : n \in 1 .. Len(AllChannels)}
Index(ch) == CHOOSE n \in 1 .. Len(AllChannels) : AllChannels[n] = ch

\* self.handlers: three tasks, and TreeMemberUpdate's unless the bot is server specific.
Handlers(specific) ==
    {"DBLVote", "ProposalCacheAdd", "ProposalCacheRemove"}
        \cup (IF specific THEN {} ELSE {"TreeMemberUpdate"})

\* What a message does to the loop body: "good" decodes and is handled,
\* "malformed" makes get_json raise, "poison" decodes and makes the handler raise.
Kinds == {"good", "malformed", "poison"}

\* How the function given to channel_handler is made: a plain function that
\* does its work when called, a coroutine function, a plain callable that
\* returns a coroutine (such as a lambda around a coroutine function), or a
\* coroutine object.
Conventions == {"function", "coroutinefunction", "returns_coroutine", "coroutine"}

\* The test of line 51.
Awaited(conv) == conv \in {"coroutine", "coroutinefunction"}

\* Where a task that is not done may be: not started, suspended in the
\* "async with" of line 42 ("connected" once it holds the connection), in
\* wait_message, or in the handler it awaits.
Pending == {"created", "subscribing", "connected", "listening", "handling"}
IsPending(ch) == task[ch] \in Pending
\* A task takes its next step normally only if cancel() has not been called on it.
Runs(ch, at) == task[ch] = at /\ ch \notin cancel_req

Delivered == LET Sum[n \in 0 .. Len(AllChannels)] ==
                    IF n = 0 THEN 0 ELSE Sum[n - 1] + Len(delivered[AllChannels[n]])
             IN Sum[Len(AllChannels)]

\* list.remove(x): without the first occurrence of x.
RECURSIVE Remove(_, _)
Remove(seq, x) ==
    IF seq = <<>> THEN <<>>
    ELSE IF Head(seq) = x THEN Tail(seq)
    ELSE <<Head(seq)>> \o Remove(Tail(seq), x)

Range(seq) == {seq[n] : n \in 1 .. Len(seq)}

\* After __init__: the tasks are created and none has run. conv[ch] is how the
\* function given for channel ch is made.
InitRelay(specific, conv) ==
    /\ is_server_specific = specific
    /\ task = [ch \in Channels |->
                 IF ch \in Handlers(is_server_specific) THEN "created" ELSE "absent"]
    /\ cancel_req = {}
    /\ channels = <<>>
    /\ subscribed = {}
    /\ delivered = [ch \in Channels |-> <<>>]
    /\ taken = [ch \in Channels |-> 0]
    /\ invoked = [ch \in Channels |-> <<>>]
    /\ listened = {}
    /\ unload_pc = "idle"
    /\ todo = <<>>
    /\ unloads = 0
    /\ returned = 0
    /\ unload_error = None
    /\ requested = [ch \in Channels |-> 0]
    /\ convention = conv
    /\ completed = [ch \in Channels |-> <<>>]
    /\ redis_held = {}

\* The handlers of __init__ are lambdas around plain calls.
InitRedis(specific) == InitRelay(specific, [ch \in Channels |-> "function"])

\* A first step that does not record the channel in self._channels.
channel_handler_start_unrecorded(ch) ==
    /\ Runs(ch, "created")
    /\ \A other \in Channels : Index(other) < Index(ch) => task[other] # "created"
    /\ task' = [task EXCEPT ![ch] = "subscribing"]
    /\ UNCHANGED <<is_server_specific, cancel_req, channels, subscribed, delivered, taken,
                   invoked, listened, unload_pc, todo, unloads, returned, unload_error,
                   requested>>
    /\ UNCHANGED <<dbvars, leasevars, relayvars>>

\* The task's first step: self._channels.append(channel_name), then it is
\* suspended in "async with self.bot.redis()". The loop starts tasks in the
\* order they were created.
channel_handler_start(ch) ==
    /\ Runs(ch, "created")
    /\ \A other \in Channels : Index(other) < Index(ch) => task[other] # "created"
    /\ channels' = Append(channels, ch)
    /\ task' = [task EXCEPT ![ch] = "subscribing"]
    /\ UNCHANGED <<is_server_specific, cancel_req, subscribed, delivered, taken, invoked,
                   listened, unload_pc, todo, unloads, returned, unload_error, requested>>
    /\ UNCHANGED <<dbvars, leasevars, relayvars>>

\* "async with self.bot.redis() as re" and channel_list = await
\* re.conn.subscribe(channel_name) return, the connection is released and the
\* task reaches "while await channel.wait_message()"; or one of them raises.
channel_handler_subscribe(ch, ok) ==
    /\ Runs(ch, "subscribing")
    /\ IF ok
       THEN /\ subscribed' = subscribed \cup {ch}
            /\ listened' = listened \cup {ch}
            /\ task' = [task EXCEPT ![ch] = "listening"]
       ELSE /\ task' = [task EXCEPT ![ch] = "failed"]
            /\ UNCHANGED <<subscribed, listened>>
    /\ UNCHANGED <<is_server_specific, cancel_req, channels, delivered, taken, invoked,
                   unload_pc, todo, unloads, returned, unload_error, requested>>
    /\ UNCHANGED <<dbvars, leasevars, relayvars>>

\* A Channel object that hands out its newest message first.
NextMessageNewest(ch) == Len(delivered[ch]) - taken[ch]

\* The message the loop reads next from ch's Channel object: the oldest unread.
NextMessage(ch) == taken[ch] + 1

\* A turn of the loop whose error ends every task, as an error that reached
\* the event loop itself would.
channel_handler_message_stops_all(ch) ==
    /\ Runs(ch, "listening")
    /\ taken[ch] < Len(delivered[ch])
    /\ LET n == taken[ch] + 1
           kind == delivered[ch][n] IN
       /\ taken' = [taken EXCEPT ![ch] = @ + 1]
       /\ invoked' = [invoked EXCEPT ![ch] = IF kind = "malformed" THEN @ ELSE Append(@, n)]
       /\ completed' = [completed EXCEPT ![ch] = IF kind = "good" THEN Append(@, n) ELSE @]
       /\ task' = IF kind = "good" THEN task ELSE [other \in Channels |-> "failed"]
    /\ UNCHANGED <<is_server_specific, cancel_req, channels, subscribed, delivered, listened,
                   unload_pc, todo, unloads, returned, unload_error, requested>>
    /\ UNCHANGED <<dbvars, leasevars, convention, redis_held>>

\* One turn of the loop: wait_message() is true, data = await channel.get_json()
\* decodes the message or raises, and function(data) is called, awaited if
\* line 51 finds function to be a coroutine or a coroutine function. Nothing in
\* channel_handler catches an error: the task ends with it. A coroutine object
\* is not callable (TypeError); the coroutine a plain callable returns is
\* dropped without being run, so neither its work nor its error happens.
channel_handler_message(ch) ==
    /\ Runs(ch, "listening")
    /\ taken[ch] < Len(delivered[ch])
    /\ LET n == NextMessage(ch)
           kind == delivered[ch][n]
           conv == convention[ch] IN
       /\ taken' = [taken EXCEPT ![ch] = @ + 1]
       /\ invoked' = [invoked EXCEPT ![ch] =
                        IF kind = "malformed" \/ conv = "coroutine" THEN @ ELSE Append(@, n)]
       /\ completed' = [completed EXCEPT ![ch] =
                          IF kind = "good" /\ conv = "function" THEN Append(@, n) ELSE @]
       /\ task' = [task EXCEPT ![ch] =
                     IF kind = "malformed" \/ conv = "coroutine" THEN "failed"
                     ELSE IF Awaited(conv) THEN "handling"
                     ELSE IF conv = "returns_coroutine" \/ kind = "good" THEN "listening"
                     ELSE "failed"]
    /\ UNCHANGED <<is_server_specific, cancel_req, channels, subscribed, delivered, listened,
                   unload_pc, todo, unloads, returned, unload_error, requested>>
    /\ UNCHANGED <<dbvars, leasevars, convention, redis_held>>

\* The coroutine awaited at line 52 ends: the handler's work is done, or it
\* raised and the task ends with its error.
channel_handler_handled(ch) ==
    /\ Runs(ch, "handling")
    /\ LET n == taken[ch]
           kind == delivered[ch][n] IN
       /\ completed' = [completed EXCEPT ![ch] = IF kind = "good" THEN Append(@, n) ELSE @]
       /\ task' = [task EXCEPT ![ch] = IF kind = "good" THEN "listening" ELSE "failed"]
    /\ UNCHANGED <<is_server_specific, cancel_req, channels, subscribed, delivered, taken,
                   invoked, listened, unload_pc, todo, unloads, returned, unload_error,
                   requested>>
    /\ UNCHANGED <<dbvars, leasevars, convention, redis_held>>

\* wait_message() returns False: the channel was closed and nothing is left to
\* read; the loop and the task end.
channel_handler_closed(ch) ==
    /\ Runs(ch, "listening")
    /\ ch \notin subscribed
    /\ taken[ch] = Len(delivered[ch])
    /\ task' = [task EXCEPT ![ch] = "closed"]
    /\ UNCHANGED <<is_server_specific, cancel_req, channels, subscribed, delivered, taken,
                   invoked, listened, unload_pc, todo, unloads, returned, unload_error,
                   requested>>
    /\ UNCHANGED <<dbvars, leasevars, relayvars>>

\* The connection lease of "async with self.bot.redis() as re": taken when the
\* block is entered, given back when it is left, on any path.
RedisAcquire(ch) == redis_held' = redis_held \cup {ch}
RedisRelease(ch) == redis_held' = redis_held \ {ch}

\* Lines 42 to 44 step by step. First "async with self.bot.redis() as re" is
\* entered: the task holds a connection, or the acquisition raises.
channel_handler_connect(ch, ok) ==
    /\ Runs(ch, "subscribing")
    /\ IF ok
       THEN /\ RedisAcquire(ch)
            /\ task' = [task EXCEPT ![ch] = "connected"]
       ELSE /\ task' = [task EXCEPT ![ch] = "failed"]
            /\ UNCHANGED redis_held
    /\ UNCHANGED <<is_server_specific, cancel_req, channels, subscribed, delivered, taken,
                   invoked, listened, unload_pc, todo, unloads, returned, unload_error,
                   requested>>
    /\ UNCHANGED <<dbvars, leasevars, convention, completed>>

\* Then await re.conn.subscribe(channel_name) returns or raises, and either
\* way the block is left: the task reaches the wait_message loop, or ends.
channel_handler_subscribed(ch, ok) ==
    /\ Runs(ch, "connected")
    /\ RedisRelease(ch)
    /\ IF ok
       THEN /\ subscribed' = subscribed \cup {ch}
            /\ listened' = listened \cup {ch}
            /\ task' = [task EXCEPT ![ch] = "listening"]
       ELSE /\ task' = [task EXCEPT ![ch] = "failed"]
            /\ UNCHANGED <<subscribed, listened>>
    /\ UNCHANGED <<is_server_specific, cancel_req, channels, delivered, taken, invoked,
                   unload_pc, todo, unloads, returned, unload_error, requested>>
    /\ UNCHANGED <<dbvars, leasevars, convention, completed>>

\* A cancellation that ends the task without leaving the "async with" block.
channel_handler_cancelled_inside(ch, took_effect) ==
    /\ ch \in cancel_req
    /\ IsPending(ch)
    /\ took_effect => task[ch] \in {"subscribing", "connected"}
    /\ subscribed' = IF took_effect THEN subscribed \cup {ch} ELSE subscribed
    /\ task' = [task EXCEPT ![ch] = "cancelled"]
    /\ cancel_req' = cancel_req \ {ch}
    /\ UNCHANGED <<is_server_specific, channels, delivered, taken, invoked, listened,
                   unload_pc, todo, unloads, returned, unload_error, requested>>
    /\ UNCHANGED <<dbvars, leasevars, relayvars>>

\* CancelledError reaches a task cancel() was called on, at its first step or at
\* the await it is suspended in: in the "async with" block, which is left, in
\* wait_message, or in the handler it awaits; the task ends. A subscribe
\* request that was in flight may or may not have taken effect on the bus.
channel_handler_cancelled(ch, took_effect) ==
    /\ ch \in cancel_req
    /\ IsPending(ch)
    /\ took_effect => task[ch] \in {"subscribing", "connected"}
    /\ subscribed' = IF took_effect THEN subscribed \cup {ch} ELSE subscribed
    /\ RedisRelease(ch)
    /\ task' = [task EXCEPT ![ch] = "cancelled"]
    /\ cancel_req' = cancel_req \ {ch}
    /\ UNCHANGED <<is_server_specific, channels, delivered, taken, invoked, listened,
                   unload_pc, todo, unloads, returned, unload_error, requested>>
    /\ UNCHANGED <<dbvars, leasevars, convention, completed>>

(***************************************************************************)
(* The bus.                                                                *)
(***************************************************************************)
\* A message published on ch reaches the Channel object of a subscription.
Publish(ch, kind) ==
    /\ ch \in subscribed
    /\ Delivered < MaxMsgs
    /\ delivered' = [delivered EXCEPT ![ch] = Append(@, kind)]
    /\ UNCHANGED <<is_server_specific, task, cancel_req, channels, subscribed, taken, invoked,
                   listened, unload_pc, todo, unloads, returned, unload_error, requested>>
    /\ UNCHANGED <<dbvars, leasevars, relayvars>>

\* The bus closes the subscription of ch (the connection is lost).
BusCloses(ch) ==
    /\ ch \in subscribed
    /\ subscribed' = subscribed \ {ch}
    /\ UNCHANGED <<is_server_specific, task, cancel_req, channels, delivered, taken, invoked,
                   listened, unload_pc, todo, unloads, returned, unload_error, requested>>
    /\ UNCHANGED <<dbvars, leasevars, relayvars>>

(***************************************************************************)
(* RedisHandler.cog_unload.                                                *)
(***************************************************************************)
\* A cog_unload that cancels no task.
cog_unload_no_cancel(specific) ==
    /\ unload_pc = "idle"
    /\ unloads < MaxUnloads
    /\ unloads' = unloads + 1
    /\ todo' = channels
    /\ unload_error' = None
    /\ IF channels = <<>>
       THEN /\ returned' = returned + 1
            /\ UNCHANGED unload_pc
       ELSE /\ unload_pc' = "unsubscribing"
            /\ UNCHANGED returned
    /\ UNCHANGED <<is_server_specific, task, cancel_req, channels, subscribed, delivered, taken,
                   invoked, listened, requested>>
    /\ UNCHANGED <<dbvars, leasevars, relayvars>>

\* for handler in self.handlers: handler.cancel(), which does nothing to a task
\* that is done; then the loop over self._channels.copy() begins. With nothing
\* in self._channels, cog_unload returns.
cog_unload(specific) ==
    /\ unload_pc = "idle"
    /\ unloads < MaxUnloads
    /\ unloads' = unloads + 1
    /\ cancel_req' = cancel_req \cup {ch \in Handlers(specific) : IsPending(ch)}
    /\ todo' = channels
    /\ unload_error' = None
    /\ IF channels = <<>>
       THEN /\ returned' = returned + 1
            /\ UNCHANGED unload_pc
       ELSE /\ unload_pc' = "unsubscribing"
            /\ UNCHANGED returned
    /\ UNCHANGED <<is_server_specific, task, channels, subscribed, delivered, taken, invoked,
                   listened, requested>>
    /\ UNCHANGED <<dbvars, leasevars, relayvars>>

\* A loop turn that leaves the channel in self._channels.
cog_unload_unsubscribe_keeps(ok) ==
    /\ unload_pc = "unsubscribing"
    /\ LET channel == Head(todo) IN
       /\ requested' = [requested EXCEPT ![channel] = @ + 1]
       /\ IF ok
          THEN /\ subscribed' = subscribed \ {channel}
               /\ todo' = Tail(todo)
               /\ unload_pc' = IF Tail(todo) = <<>> THEN "idle" ELSE "unsubscribing"
               /\ returned' = IF Tail(todo) = <<>> THEN returned + 1 ELSE returned
               /\ UNCHANGED unload_error
          ELSE /\ unload_error' = "Exception"
               /\ unload_pc' = "idle"
               /\ UNCHANGED <<subscribed, todo, returned>>
    /\ UNCHANGED <<is_server_specific, task, cancel_req, channels, delivered, taken, invoked,
                   listened, unloads>>
    /\ UNCHANGED <<dbvars, leasevars, relayvars>>

\* One turn of the loop: run_until_complete(self.bot.redis.pool.unsubscribe(channel)),
\* then self._channels.remove(channel). An error of run_until_complete is not
\* caught: it ends cog_unload before the remove, with the rest of the copy
\* (todo) not visited.
cog_unload_unsubscribe(ok) ==
    /\ unload_pc = "unsubscribing"
    /\ LET channel == Head(todo) IN
       /\ requested' = [requested EXCEPT ![channel] = @ + 1]
       /\ IF ok
          THEN /\ subscribed' = subscribed \ {channel}
               /\ channels' = Remove(channels, channel)
               /\ todo' = Tail(todo)
               /\ unload_pc' = IF Tail(todo) = <<>> THEN "idle" ELSE "unsubscribing"
               /\ returned' = IF Tail(todo) = <<>> THEN returned + 1 ELSE returned
               /\ UNCHANGED unload_error
          ELSE /\ unload_error' = "Exception"
               /\ unload_pc' = "idle"
               /\ UNCHANGED <<subscribed, channels, todo, returned>>
    /\ UNCHANGED <<is_server_specific, task, cancel_req, delivered, taken, invoked, listened,
                   unloads>>
    /\ UNCHANGED <<dbvars, leasevars, relayvars>>

\* The relay at work: the tasks subscribe and dispatch what the bus delivers.
NextRelay ==
    \/ \E ch \in Channels : channel_handler_start(ch)
    \/ \E ch \in Channels, ok \in BOOLEAN : channel_handler_subscribe(ch, ok)
    \/ \E ch \in Channels : channel_handler_message(ch)
    \/ \E ch \in Channels : channel_handler_closed(ch)
    \/ \E ch \in Channels, kind \in Kinds : Publish(ch, kind)
    \/ \E ch \in Channels : BusCloses(ch)

\* The registry: the tasks start, and cog_unload tears them down.
NextRegistry ==
    \/ \E ch \in Channels : channel_handler_start(ch)
    \/ \E ch \in Channels, ok \in BOOLEAN : channel_handler_subscribe(ch, ok)
    \/ \E ch \in Channels : channel_handler_closed(ch)
    \/ \E ch \in Channels, took_effect \in BOOLEAN : channel_handler_cancelled(ch, took_effect)
    \/ \E ch \in Channels : BusCloses(ch)
    \/ cog_unload(is_server_specific)
    \/ \E ok \in BOOLEAN : cog_unload_unsubscribe(ok)

\* The cog of a bot of either kind, beside an idle pool.
InitCog == InitDb(MaxPoolSize) /\ \E specific \in BOOLEAN : InitRedis(specific)

SpecRelay == InitCog /\ [][NextRelay]_vars

SpecRegistry == InitCog /\ [][NextRegistry]_vars

\* The relay with handlers of any make: channel_handler takes any callable.
NextDispatch ==
    \/ NextRelay
    \/ \E ch \in Channels : channel_handler_handled(ch)

InitDispatch ==
    /\ InitDb(MaxPoolSize)
    /\ \E conv \in Conventions : InitRelay(TRUE, [ch \in Channels |-> conv])

SpecDispatch == InitDispatch /\ [][NextDispatch]_vars

\* Scopes under cancellation. The handler of the c-th channel is a coroutine
\* function that works inside "async with DatabaseConnection() as db": caller
\* c of the pool is that handler, running while its task awaits it at line 52.
HandlerOf(c) == AllChannels[c]
InHandler(c) == Runs(HandlerOf(c), "handling")
OutOfScope(ch) == Index(ch) \in Callers => dbpc[Index(ch)] = "start"

\* The channel tasks go through their own "async with" and dispatch what the
\* bus delivers; cog_unload cancels them wherever they are suspended, in the
\* handler's block too, which __aexit__ then leaves.
NextScope ==
    \/ \E c \in Callers : InHandler(c) /\ aenter(c)
    \/ \E c \in Callers : InHandler(c) /\ dbpc[c] = "held" /\ aexit(c)
    \/ \E c \in Callers : HandlerOf(c) \in cancel_req /\ caller_cancelled(c)
    \/ \E c \in Callers : dbpc[c] = "exiting" /\ aexit(c)
    \/ \E ch \in Channels : channel_handler_start(ch)
    \/ \E ch \in Channels, ok \in BOOLEAN : channel_handler_connect(ch, ok)
    \/ \E ch \in Channels, ok \in BOOLEAN : channel_handler_subscribed(ch, ok)
    \/ \E ch \in Channels : channel_handler_message(ch)
    \/ \E ch \in Channels : OutOfScope(ch) /\ channel_handler_handled(ch)
    \/ \E ch \in Channels, took_effect \in BOOLEAN :
          OutOfScope(ch) /\ channel_handler_cancelled(ch, took_effect)
    \/ \E ch \in Channels : Publish(ch, "good")
    \/ cog_unload(is_server_specific)
    \/ \E ok \in BOOLEAN : cog_unload_unsubscribe(ok)

InitScope ==
    /\ InitDb(1)
    /\ InitRelay(TRUE, [ch \in Channels |->
                           IF Index(ch) \in Callers THEN "coroutinefunction" ELSE "function"])

SpecScope == InitScope /\ [][NextScope]_vars

\* The event loop runs every task that can run, and the bus answers every
\* subscribe request, with success or with an error.
FairRelay ==
    \A ch \in Channels :
        /\ WF_vars(channel_handler_start(ch))
        /\ WF_vars(\E ok \in BOOLEAN : channel_handler_subscribe(ch, ok))
        /\ WF_vars(channel_handler_message(ch))

SpecRelayFair == SpecRelay /\ FairRelay

\* A pool of any configured size, beside a cog whose tasks have not run.
InitPool == InitRedis(TRUE) /\ \E size \in 1 .. MaxPoolSize : InitDb(size)

SpecDb == InitPool /\ [][NextDb]_vars

\* Each caller's pending backend request is answered and a caller that holds a
\* lease releases it in the end; the pool's queue wakes every waiter of
\* acquire() in turn.
FairDb ==
    \A c \in Callers :
        /\ WF_vars(MarryStep(c))
        /\ SF_vars(Release(c))
        /\ SF_vars(Acquire(c))

\* The pool under load: every caller acquires a lease, may run marry(1, 2, 9)
\* on it, and releases it.
NextPool ==
    \/ \E c \in Callers : get_connection(c)
    \/ \E c \in Callers : aenter(c)
    \/ \E c \in Callers : disconnect(c)
    \/ \E c \in Callers : aexit(c)
    \/ \E c \in Callers : marry(c, 1, 2, 9)
    \/ \E c \in Callers : MarryStep(c)

SpecPoolFair == InitPool /\ [][NextPool]_vars /\ FairDb

\* The holder of a lease uses the methods of DatabaseConnection directly.
NextLease ==
    \/ \E c \in Callers : get_connection(c)
    \/ \E c \in Callers : disconnect(c)
    \/ \E c \in Callers, out \in RequestOutcomes : call_start_transaction(c, out)
    \/ \E c \in Callers, out \in RequestOutcomes : call_commit_transaction(c, out)
    \/ \E c \in Callers : marry(c, 1, 2, 9)
    \/ \E c \in Callers : MarryStep(c)

SpecLease == InitPool /\ [][NextLease]_vars

\* copy_records_to_table(table_name, records=[r]) by the holder of a lease:
\* conn.copy_records_to_table runs COPY on the lease's own connection, as any
\* statement sent on it: inside the transaction open on that connection if
\* there is one, committed at once otherwise. It returns COPY's status.
copy_records_to_table(c, u, p, out) ==
    /\ dbpc[c] = "held"
    /\ LET k == conn[c]
           r == Row(u, p, 9, 0) IN
       /\ out \in InsertOutcomes(k, r)
       /\ IF out = "ok"
          THEN /\ InsertRow(k, r)
               /\ copied' = copied \cup {r}
               /\ result' = [result EXCEPT ![c] = Result("COPY", <<>>)]
          ELSE /\ result' = [result EXCEPT ![c] = Result(out, <<>>)]
               /\ UNCHANGED <<pending, marriages, copied>>
    /\ query' = [query EXCEPT ![c] = NoQuery]
    /\ UNCHANGED <<max_size, pool, conn, transaction, xact, dbpc, call, caught, raised, steps,
                   now, config, pools, exited, saved, redisvars, relayvars>>

\* create_pool(config), at any time of a run: the configuration is stored
\* first; a disabled one ends the process with exit(1); otherwise
\* asyncpg.create_pool makes a pool, which takes the place of the one in
\* DatabaseConnection.pool, or raises. Nothing looks at the pool already
\* there, and the connections leased from it stay with their callers.
create_pool(cfg, ok) ==
    /\ ~exited
    /\ pools < MaxPools
    /\ config' = cfg
    /\ IF cfg.enabled = FALSE
       THEN /\ exited' = TRUE
            /\ UNCHANGED <<pools, max_size, pool>>
       ELSE IF ok
       THEN /\ pools' = pools + 1
            /\ max_size' = cfg.max_size
            /\ pool' = Members(pools + 1, cfg.max_size)
            /\ UNCHANGED exited
       ELSE UNCHANGED <<exited, pools, max_size, pool>>
    /\ UNCHANGED <<conn, transaction, xact, pending, marriages, dbpc, call, caught, raised,
                   steps, now, saved, result, query, copied, redisvars, relayvars>>

\* A running process initializes the pool again while callers use it.
NextInit ==
    \/ \E cfg \in Configs, ok \in BOOLEAN : create_pool(cfg, ok)
    \/ \E c \in Callers : ~exited /\ get_connection(c)
    \/ \E c \in Callers : ~exited /\ disconnect(c)
    \/ \E c \in Callers, out \in RequestOutcomes : ~exited /\ call_start_transaction(c, out)
    \/ \E c \in Callers, out \in RequestOutcomes : ~exited /\ call_commit_transaction(c, out)

SpecInit == InitPool /\ [][NextInit]_vars

\* The holder of a lease runs statements through __call__, inside and outside
\* a transaction of its own.
NextQuery ==
    \/ \E c \in Callers : get_connection(c)
    \/ \E c \in Callers : disconnect(c)
    \/ \E c \in Callers : call_start_transaction(c, "ok")
    \/ \E c \in Callers : call_commit_transaction(c, "ok")
    \/ \E c \in Callers, sql \in Statements, u \in Users, out \in StatementOutcomes :
          \E p \in Users \ {u} : call_sql(c, sql, u, p, out)

\* A pool of one connection: the statements of one lease at a time.
InitQuery == InitRedis(TRUE) /\ InitDb(1)

SpecQuery == InitQuery /\ [][NextQuery]_vars

\* The holder of a lease copies records, inside and outside a transaction of
\* its own.
NextCopy ==
    \/ \E c \in Callers : get_connection(c)
    \/ \E c \in Callers : disconnect(c)
    \/ \E c \in Callers : call_start_transaction(c, "ok")
    \/ \E c \in Callers : call_commit_transaction(c, "ok")
    \/ \E c \in Callers, u \in Users, out \in StatementOutcomes :
          \E p \in Users \ {u} : copy_records_to_table(c, u, p, out)

SpecCopy == InitQuery /\ [][NextCopy]_vars

(***************************************************************************)
(* Properties of DatabaseConnection.                                       *)
(***************************************************************************)
\* Caller c's marry() has returned or raised.
Finished(c) == dbpc[c] = "held" /\ steps[c] # <<>>
Succeeded(c) == Finished(c) /\ raised[c] = NoExc
Did(c, s) == \E n \in 1 .. Len(steps[c]) : steps[c][n] = s
\* The committed rows a marry() call stamped ts wrote.
RowsOf(ts) == {r \in marriages : r.timestamp = ts}

\* C1: to any reader of the committed table the two rows of a marriage exist
\* together or not at all: (i,t,g) is a row iff (t,i,g) is, and both carry the
\* timestamp of one marry() call; once marry() has returned both of its rows are
\* committed; and once one of its INSERTs has raised, no row of that call is
\* committed, before the rollback or after it.
C1_MarryAtomic ==
    /\ \A i \in Users, t \in Users, g \in Guilds :
          <<i, t, g>> \in Keys(marriages) <=> <<t, i, g>> \in Keys(marriages)
    /\ \A r \in marriages :
          Row(r.partner_id, r.user_id, r.guild_id, r.timestamp) \in marriages
    /\ \A c \in Callers :
          Succeeded(c) => FirstRow(c) \in marriages /\ SecondRow(c) \in marriages
    /\ \A c \in Callers :
          caught[c] # NoExc => RowsOf(call[c].timestamp) = {}

\* A second INSERT hit the duplicate key, the call was rolled back and raised,
\* while the rows of an earlier marriage are committed.
C1_Witness ==
    \E c \in Callers :
        /\ Finished(c)
        /\ caught[c] = Exc("insert2", "UniqueViolationError")
        /\ marriages # {}

\* C2 as stated: whenever a statement of marry() has raised, the transaction is
\* rolled back, commit is never requested, and the error that leaves marry() is
\* exactly the error the statement raised.
C2_OriginalReraised ==
    \A c \in Callers :
        (Finished(c) /\ caught[c] # NoExc) =>
            /\ transaction[c] = "ROLLEDBACK"
            /\ ~Did(c, "commit")
            /\ raised[c] = caught[c]

\* C2, amended: whenever a statement of marry() has raised, a rollback is
\* requested and commit never is, and marry() raises: exactly the statement's
\* error when the rollback succeeded, and the rollback's own error when the
\* rollback raised.
C2_RollbackThenRaise ==
    \A c \in Callers :
        caught[c] # NoExc =>
            /\ ~Did(c, "commit")
            /\ Finished(c) =>
                /\ Did(c, "rollback")
                /\ raised[c] # NoExc
                /\ transaction[c] \in {"ROLLEDBACK", "FAILED"}
                /\ transaction[c] = "ROLLEDBACK" => raised[c] = caught[c]
                /\ transaction[c] = "FAILED" => raised[c] = Exc("rollback", "InterfaceError")

\* A statement raised, the rollback succeeded and the statement's error left marry().
C2_Witness ==
    \E c \in Callers :
        /\ Finished(c)
        /\ caught[c] # NoExc
        /\ transaction[c] = "ROLLEDBACK"
        /\ raised[c] = caught[c]

\* The callers that hold a lease.
Holders == {c \in Callers : conn[c] # NoConn}

\* No more leases than the pool has connections, no connection leased twice or
\* leased while free, and a caller suspended in acquire() has not been failed.
PoolBounded ==
    /\ Cardinality(Holders) <= max_size
    /\ \A c \in Holders : conn[c] \in 1 .. max_size /\ conn[c] \notin pool
    /\ \A c \in Holders, d \in Holders : conn[c] = conn[d] => c = d
    /\ \A c \in Callers : dbpc[c] = "acquiring" => conn[c] = NoConn /\ raised[c] = NoExc

\* C10: with more callers than the pool has connections, at most max_size leases
\* are ever held; a caller that finds the pool empty waits inside acquire()
\* without an error, and, leases being released, it acquires one.
C10_PoolBound ==
    /\ []PoolBounded
    /\ \A c \in Callers : (dbpc[c] = "acquiring") ~> (conn[c] # NoConn)

\* Every connection is leased and another caller is suspended in acquire().
C10_Witness ==
    /\ NCallers > max_size
    /\ Cardinality(Holders) = max_size
    /\ \E c \in Callers : dbpc[c] = "acquiring"

\* C11: a lease with a transaction started and neither committed nor rolled
\* back is never returned to the pool: disconnect or __aexit__ of such a lease
\* is reported to the caller as a ProtocolViolationError and the connection
\* stays out of the pool; and no caller is handed a connection with a
\* transaction open on it.
C11_DanglingReleaseRefused ==
    [][\A c \in Callers :
          /\ (conn[c] # NoConn /\ xact[conn[c]] /\ (disconnect(c) \/ aexit(c))) =>
                /\ conn[c] \notin pool'
                /\ result'[c] = Result("ProtocolViolationError", <<>>)
          /\ (conn[c] = NoConn /\ conn'[c] # NoConn) => ~xact'[conn'[c]]]_vars

\* C12: start_transaction on a lease whose connection has a transaction open
\* fails with TransactionAlreadyActiveError and leaves that transaction and the
\* marker as they were: it never puts a second transaction in the marker.
C12_SecondBeginRefused ==
    [][\A c \in Callers :
          (/\ conn[c] # NoConn
           /\ xact[conn[c]]
           /\ \E out \in RequestOutcomes : call_start_transaction(c, out)) =>
                /\ result'[c] = Result("TransactionAlreadyActiveError", <<>>)
                /\ UNCHANGED <<transaction, xact, saved, pending>>]_vars

\* C14: once marry() has finished, having returned after its commit or raised
\* the statement's error after its rollback, the marker self.transaction is
\* None; so between calls a marker that is not None (leaving aside the
\* Transaction of a BEGIN or COMMIT that raised) means a transaction is open
\* on the lease's connection.
C14_MarkerCleared ==
    \A c \in Callers :
        /\ (Succeeded(c) \/ (Finished(c) /\ caught[c] # NoExc /\ raised[c] = caught[c])) =>
              transaction[c] = None
        /\ (dbpc[c] = "held" /\ transaction[c] \notin {None, "FAILED"}) => xact[conn[c]]

\* A statement with a select or a returning clause.
ReadType(sql) ==
    sql # <<>> /\ (Verb(sql) = "select" \/ \E n \in 1 .. Len(sql) : Casefold(sql[n]) = "returning")

\* The kinds of result that are not an error raised.
Values == {"None", "list"}

C3_InvokedInDeliveryOrder ==
    \A ch \in Channels :
        /\ \A a \in 1 .. Len(invoked[ch]) :
              /\ invoked[ch][a] \in 1 .. taken[ch]
              /\ taken[ch] <= Len(delivered[ch])
              /\ \A b \in 1 .. Len(invoked[ch]) : a < b => invoked[ch][a] < invoked[ch][b]
        /\ \A n \in 1 .. taken[ch] :
              delivered[ch][n] # "malformed" => n \in Range(invoked[ch])

\* Two messages of one channel were handled while another channel's loop was waiting.
C3_Witness ==
    \E ch \in Channels, other \in Channels :
        /\ other # ch
        /\ Len(invoked[ch]) = 2
        /\ task[other] = "listening"

\* C4: reading a message whose payload does not decode leaves the channel's
\* loop waiting for the next message.
C4_MalformedKeepsLoop ==
    [][\A ch \in Channels :
          (/\ task[ch] = "listening"
           /\ taken'[ch] = taken[ch] + 1
           /\ delivered[ch][taken'[ch]] = "malformed") => task'[ch] = "listening"]_vars

\* C5: a handler that raises on a message leaves the channel's loop waiting
\* for the next message.
C5_HandlerErrorKeepsLoop ==
    [][\A ch \in Channels :
          (/\ task[ch] = "listening"
           /\ taken'[ch] = taken[ch] + 1
           /\ delivered[ch][taken'[ch]] = "poison") => task'[ch] = "listening"]_vars

\* Every task has recorded its channel and has left the subscribe step, for
\* the wait_message loop or with an error.
Settled ==
    /\ Range(channels) = Handlers(is_server_specific)
    /\ \A ch \in Handlers(is_server_specific) :
          /\ task[ch] \notin {"created", "subscribing"}
          /\ ch \in listened \/ task[ch] = "failed"

\* C6: after __init__, self._channels comes to hold exactly the configured
\* channels and every task leaves the subscribe step, for the wait_message loop
\* or with an error, and it stays so.
C6_StartSettles == <>[]Settled

\* All tasks have settled, one in its loop and one failed at subscribe.
C6_Witness ==
    /\ Settled
    /\ \E ch \in Channels : task[ch] = "listening"
    /\ \E ch \in Channels : task[ch] = "failed" /\ ch \notin listened

\* A cog_unload has ended and none is running.
UnloadEnded == unloads > 0 /\ unload_pc = "idle"

\* C7 as stated: an unsubscribe is requested only for a channel whose task had
\* cancel() called on it (or was done), and only for a channel that reached
\* the wait_message loop; and once cog_unload has returned, self._channels is
\* empty and every channel that reached the loop had its unsubscribe requested.
C7_UnsubscribesListenedOnly ==
    /\ \A ch \in Channels :
          requested[ch] > 0 =>
              /\ ch \in listened
              /\ ~Runs(ch, "subscribing") /\ ~Runs(ch, "listening")
    /\ (UnloadEnded /\ unload_error = None) =>
          /\ channels = <<>>
          /\ \A ch \in listened : requested[ch] > 0

\* C8: a cog_unload called after one that returned normally returns at once
\* without an error, requests no unsubscribe, and changes neither
\* self._channels nor any task.
C8_SecondUnloadNoOp ==
    [][(UnloadEnded /\ unload_error = None /\ unloads' = unloads + 1) =>
          /\ unload_pc' = "idle"
          /\ unload_error' = None
          /\ returned' = returned + 1
          /\ UNCHANGED <<channels, task, cancel_req, subscribed, requested>>]_vars

\* Two calls have returned and the first of them had a channel to unsubscribe.
C8_Witness ==
    /\ returned >= 2
    /\ unload_pc = "idle"
    /\ \E ch \in Channels : requested[ch] = 1

\* C9 as stated: a cog_unload always ends without an error, with
\* self._channels empty and every channel of its copy visited, whether or not
\* an unsubscribe request failed.
C9_TeardownBestEffort ==
    UnloadEnded => (unload_error = None /\ channels = <<>> /\ todo = <<>>)

\* C19: whatever the make of the handler (a plain function, a coroutine
\* function, or a plain callable that returns a coroutine), every message read
\* and decoded has the handler called on it exactly once, in order, and when
\* the loop is back in wait_message the work of every call has run to its end.
C19_HandlerWorkDone ==
    \A ch \in Channels :
        convention[ch] # "coroutine" =>
            /\ \A n \in 1 .. taken[ch] :
                  delivered[ch][n] # "malformed" =>
                      Cardinality({a \in 1 .. Len(invoked[ch]) : invoked[ch][a] = n}) = 1
            /\ task[ch] = "listening" => completed[ch] = invoked[ch]

\* The tasks that are done.
Done == {"failed", "closed", "cancelled"}

\* C15: a lease is held only inside its scope, and no connection is lost: a
\* channel task holds the connection of its "async with" only while it is
\* suspended in that block; a handler's lease of the pool is held only while
\* the handler runs; every connection of the pool is free or leased to a
\* caller in its block; and once every task is done, cancelled wherever it
\* was, no lease is held and the pool is whole.
C15_ScopesRelease ==
    /\ \A ch \in Channels : ch \in redis_held => task[ch] = "connected"
    /\ \A c \in Callers :
          conn[c] # NoConn => (task[HandlerOf(c)] = "handling" /\ dbpc[c] \in {"held", "exiting"})
    /\ pool \cup {conn[c] : c \in Holders} = Members(pools, max_size)
    /\ (\A ch \in Handlers(is_server_specific) : task[ch] \in Done) =>
          (redis_held = {} /\ Holders = {} /\ pool = Members(pools, max_size))

\* cog_unload has cancelled the tasks: one is done and holds nothing, and the
\* handler of another has just been cancelled inside its block, whose
\* __aexit__ is about to give the connection back.
C15_Witness ==
    \E c \in Callers, d \in Callers :
        /\ task[HandlerOf(c)] = "cancelled" /\ conn[c] = NoConn
        /\ task[HandlerOf(d)] = "handling" /\ dbpc[d] = "exiting"
        /\ raised[d] = Exc("block", "CancelledError") /\ conn[d] # NoConn

\* What channel o's subscription consists of.
Subscription(o) ==
    <<task[o], o \in subscribed, o \in listened, delivered[o], taken[o], invoked[o], completed[o]>>

\* Every task has left its subscribe step and no task in its loop has a
\* delivered message left to dispatch.
CaughtUp ==
    \A o \in Handlers(is_server_specific) :
        /\ task[o] \in {"listening", "failed", "closed"}
        /\ task[o] = "listening" => taken[o] = Len(delivered[o])

\* C16: a step in which one channel's task fails, at its subscribe request, at
\* decoding a message or in its handler, changes nothing of any other
\* channel's subscription, so a task ends only by a failure of its own; every
\* task dispatches in the order of delivery; and whichever tasks fail, every
\* other task comes to its loop and dispatches every message delivered to it.
C16_FailureConfined ==
    /\ [][\A ch \in Channels :
            (task[ch] # "failed" /\ task'[ch] = "failed") =>
                \A o \in Channels \ {ch} : Subscription(o)' = Subscription(o)]_vars
    /\ [](\A o \in Channels : \A i \in 1 .. Len(invoked[o]) : invoked[o][i] = i)
    /\ <>[]CaughtUp

\* One task failed at its subscribe request and one at a message, and a third
\* is in its loop and has dispatched the message delivered to it.
C16_Witness ==
    \E ch \in Channels, other \in Channels, o \in Channels :
        /\ task[ch] = "failed" /\ ch \notin listened
        /\ task[other] = "failed" /\ taken[other] = 1
        /\ task[o] = "listening" /\ invoked[o] = <<1>> /\ taken[o] = Len(delivered[o])

\* C17: no step of a run replaces the pool or the stored configuration: a
\* create_pool after the first one is rejected and leaves both as they were.
C17_SecondInitializeRejected ==
    [][config' = config /\ pools' = pools /\ max_size' = max_size]_vars

\* C18: a record copy_records_to_table has copied is in the table for every
\* reader from then on, whatever becomes of a transaction that was open on
\* the lease: the copy waits for no commit and no rollback undoes it.
C18_CopyOutsideTransaction == copied \subseteq marriages

\* C20: once a cog_unload has ended, no step invokes a handler or completes a
\* handler's work, whatever is published afterwards and wherever the tasks
\* were when they were cancelled.
C20_NoDispatchAfterUnload ==
    [][UnloadEnded => (invoked' = invoked /\ completed' = completed)]_vars

\* cog_unload has returned; a task cancelled during its subscribe request
\* never reached its loop, the bus still has the channel subscribed, and a
\* message published on it since lies undispatched.
C20_Witness ==
    /\ returned > 0
    /\ UnloadEnded
    /\ \E ch \in Channels :
          /\ task[ch] = "cancelled"
          /\ ch \notin listened
          /\ ch \in subscribed
          /\ delivered[ch] # <<>>
          /\ invoked[ch] = <<>>

====
